---------------------------- MODULE Spec2Model ----------------------------
(***************************************************************************)
(* A model of the parallel Gordeyev-integral engine:                       *)
(*   - integrate / parallel / shared_array   (src/parallelization.py)      *)
(*   - VelocityIntegrator.integrand          (utils/parallel/v_int_parallel)*)
(*   - INT_KAPPA, INT_MAXWELL, INT_LONG      (utils/integrand_functions)   *)
(* Spec, SpecV and SpecC run one caller; SpecP runs two calls of integrate *)
(* at one time and SpecN two evaluations of INT_LONG.v_int at one time,    *)
(* each pair on the module-level buffer both name.                         *)
(*                                                                         *)
(* Numbers.  Angles (w*y, w_c*y) are measured in quarter turns, so that    *)
(* cos, sin and exp(-i.) are exact on the integers.  A complex value is a  *)
(* record [re, im, den] standing for (re + i*im)/den.  The shape parameter *)
(* kappa is carried in half units (kappa = 5 stands for 5/2), for which    *)
(* 2^(kappa-1/2) * Gamma(kappa+1/2) is the integer 2^n * n!, n = kappa-1/2.*)
(***************************************************************************)
EXTENDS Integers, Sequences, FiniteSets, TLC

\* ------------------------------------------------------------------ bounds
GridLen    == 3   \* longest frequency grid cf.w
PoolSize   == 2   \* worker processes of one mp.Pool()
MaxCalls   == 2   \* sequential calls of integrate in one run

\* Python's None for the optional shape parameter (kappa=None), carried as 0
None == 0

\* ------------------------------------------------------- complex arithmetic
C(re, im, den) == [re |-> re, im |-> im, den |-> den]
Zero == C(0, 0, 1)
One  == C(1, 0, 1)
\* product of two values
CMul(x, y) == C(x.re * y.re - x.im * y.im, x.re * y.im + x.im * y.re, x.den * y.den)
\* difference of two values
CSub(x, y) == C(x.re * y.den - y.re * x.den, x.im * y.den - y.im * x.den, x.den * y.den)
\* sum of two values
CAdd(x, y) == C(x.re * y.den + y.re * x.den, x.im * y.den + y.im * x.den, x.den * y.den)
\* a value divided by a non-zero integer
CDiv(x, n) == C(x.re, x.im, x.den * n)
\* equality of the numbers two records stand for
CEq(x, y) == x.re * y.den = y.re * x.den /\ x.im * y.den = y.im * x.den

\* exp(-i*q*pi/2) for an integer number q of quarter turns
CisNeg(q) ==
    CASE q % 4 = 0 -> C(1, 0, 1)
      [] q % 4 = 1 -> C(0, -1, 1)
      [] q % 4 = 2 -> C(-1, 0, 1)
      [] q % 4 = 3 -> C(0, 1, 1)

RECURSIVE Factorial(_)
Factorial(n) == IF n <= 0 THEN 1 ELSE n * Factorial(n - 1)

\* 2^(kappa - 1/2) * Gamma(kappa + 1/2), kappa in half units (odd)
KappaScale(kappa) ==
    LET n == (kappa - 1) \div 2 IN (2 ^ n) * Factorial(n)


\* ------------------------------------------------------------------ state
VARIABLES
    w,          \* cf.w, the frequency grid (a sequence, immutable)
    array,      \* parallelization.array, the shared result buffer, slot 0..N-1
    pc,         \* position of the caller in integrate
    args,       \* parameters of the running (or last) call of integrate
    idx,        \* the work units built at line 29
    taskNext,   \* position in idx of the next unit the pool hands out
    running,    \* per pool worker: the position in idx it computes, 0 if idle
    finished,   \* positions in idx whose unit has returned
    consumed,   \* results the for loop has taken from pool.imap
    written,    \* per slot: the workers that wrote it during this call, in order
    a,          \* the local a of integrate: an alias of array, or a new array
    F,          \* the value integrate returned last
    calls,      \* calls of integrate started so far
    prevArgs,   \* parameters of the call before the running one
    prevF,      \* what that call returned
    imported,   \* the module body of parallelization.py has run (line 61 included)
    fopen       \* pools created by integrate and not closed

fvars == <<w, array, pc, args, idx, taskNext, running, finished, consumed,
           written, a, F, calls, prevArgs, prevF, imported, fopen>>

\* state of the velocity integrator (v_int_parallel) and of INT_LONG.v_int
VARIABLES
    varray,      \* v_int_parallel.array, the velocity-integral buffer
    ipc,         \* position of the running call of v_int_parallel.integrand
    vy,          \* its argument y
    vf,          \* its argument f, named by the distribution it samples
    vpending,    \* work units of idx not yet taken by a worker
    vrunning,    \* per pool worker: the unit it computes, <<>> if idle
    verror,      \* a worker of this pool.map raised IndexError
    vwritten,    \* per slot: the workers that wrote it during this call
    vopen,       \* pools created by integrand and not closed
    vcalls,      \* calls of integrand started so far
    ires,        \* what the last call of integrand returned
    vpc,         \* position of the running call of INT_LONG.v_int, or the
                 \* exception that ended it
    vtag,        \* params['vdf'] of that call
    fsel,        \* its local f: the selected distribution, or unbound
    varray0,     \* the buffer as it was when v_int was entered
    res_maxwell, \* its local res_maxwell
    int_maxwell, \* its local int_maxwell
    res,         \* its local res
    char_vel,    \* self.char_vel
    vpoolof,     \* per call of integrand, in order: the pool it created
    vbufof,      \* per call of integrand, in order: the buffer its workers wrote
    iresval,     \* the elements ires had when it was returned
    prevres,     \* what the call of integrand before the last returned
    prevval      \* the elements prevres had when it was returned

vvars == <<varray, ipc, vy, vf, vpending, vrunning, verror, vwritten, vopen,
           vcalls, ires, vpc, vtag, fsel, varray0, res_maxwell, int_maxwell, res,
           char_vel, vpoolof, vbufof, iresval, prevres, prevval>>

\* what a caller of integrand keeps of the results
vkept == <<iresval, prevres, prevval>>
\* the pools and buffers of the calls so far
vhist == <<vpoolof, vbufof>>

\* state of one integrand object of the catalog (INT_KAPPA, INT_MAXWELL, INT_LONG)
VARIABLES
    the_type,    \* the_type of the object, "none" before it is constructed
    cpc,         \* "none", "new" (constructed), "initialized", "fault"
    self_y,      \* self.y
    self_params, \* self.params
    Z,           \* self.Z of INT_KAPPA, each sample carried as its square
    Kn,          \* self.Kn of INT_KAPPA
    lastop,      \* the method that produced out
    out          \* the array the last call of integrand() or p_d() returned

cvars == <<the_type, cpc, self_y, self_params, Z, Kn, lastop, out>>

\* state of two calls of integrate made at the same time by two threads of the
\* importing process; both name the module's one buffer
VARIABLES
    parray,     \* the buffers, by identity; 0 is parallelization.array
    ppc,        \* per caller: its position in integrate
    pargs,      \* per caller: the parameters of its call
    ptaskNext,  \* per caller: the next unit its pool hands out
    prunning,   \* per caller and worker of its pool: the unit it computes
    pfinished,  \* per caller: the units that have returned
    pconsumed,  \* per caller: results its for loop has taken from pool.imap
    pa,         \* per caller: its local a
    pF,         \* per caller: what its call returned
    lastw,      \* per slot index: the caller whose worker wrote it last, 0 if none
    psrc        \* per caller and slot: the caller whose value its a holds

pvars == <<parray, ppc, pargs, ptaskNext, prunning, pfinished, pconsumed, pa, pF,
           lastw, psrc>>

\* state of two evaluations of INT_LONG.v_int made at the same time by two
\* workers of an outer pool, both forked from the process that imported
\* v_int_parallel
VARIABLES
    narray,     \* v_int_parallel.array, the shared memory both workers inherit
    npc,        \* per evaluation: its position in v_int, or its exception
    ntag,       \* per evaluation: params['vdf']
    npending,   \* per evaluation: units of its running pool.map not yet taken
    nrunning,   \* per evaluation and inner worker: the unit it computes
    nret,       \* per evaluation: the elements of res when v_int returned it
    nlastw      \* per slot: the evaluation and distribution of its last write

nvars == <<narray, npc, ntag, npending, nrunning, nret, nlastw>>

others_f == <<vvars, cvars, pvars, nvars>>
others_v == <<fvars, cvars, pvars, nvars>>
others_c == <<fvars, vvars, pvars, nvars>>
others_p == <<fvars, vvars, cvars, nvars>>
others_n == <<fvars, vvars, cvars, pvars>>
vars == <<fvars, vvars, cvars, pvars, nvars>>


\* ------------------------------------------------------------ input domains
Functions == {"maxwell_gordeyev", "kappa_gordeyev", "long_gordeyev"}
KappaValues == {5, 7}
\* the frequency grids: evenly spaced from 0, increasing
Grids == {[k \in 1..n |-> k - 1] : n \in 1..GridLen}
\* parameters of one call; the shape parameter is present when the kappa
\* integrand is selected (PlasmaParameters), and optional otherwise
ArgSets ==
    {r \in [w_c : {2}, Lambda_s : {0, 1}, T_MAX : {2},
            function : Functions, kappa : KappaValues \cup {None}] :
        /\ r.function = "kappa_gordeyev" => r.kappa # None
        /\ r.function = "maxwell_gordeyev" => r.kappa \in {None, 5}
        /\ r.function = "long_gordeyev" => r.kappa = None}
\* the value of args before the first call
NoArgs == [w_c |-> 0, Lambda_s |-> 0, T_MAX |-> 0, function |-> "none", kappa |-> None]

Workers == 1..PoolSize
N == Len(w)
Slots == 0..(N - 1)

\* ------------------------------------------------ the quadrature collaborator
\* a sample of the selected Gordeyev integrand at y
GordeyevSample(function, y, p) ==
    CASE function = "maxwell_gordeyev" -> 4 - y
      [] function = "kappa_gordeyev"   -> p.kappa * (3 - y) + 1
      [] function = "long_gordeyev"    -> 5 - 2 * y

\* tool.simpson: Simpson's rule on the three nodes 0, T_MAX/2, T_MAX of
\* function(y) * exp(-i*w*y)
Simpson(function, wi, p) ==
    LET h    == p.T_MAX \div 2
        f(j) == CMul(C(GordeyevSample(function, j * h, p), 0, 1), CisNeg(wi * j * h))
        sum  == CAdd(f(0), CAdd(CMul(C(4, 0, 1), f(1)), f(2)))
    IN  C(h * sum.re, h * sum.im, 3)

\* ------------------------------------------------------------- integrate
\* a buggy partition: the first frequency gets no work unit
EnumerateSkipFirst(s) == [k \in 1..(Len(s) - 1) |-> <<k, s[k + 1]>>]

\* line 29: idx = [x for x in enumerate(cf.w)]
Enumerate(s) == [k \in 1..Len(s) |-> <<k - 1, s[k]>>]

\* a buggy worker: every unit writes slot 0
ParallelSlotZero(p, index) ==
    [slot |-> 0, val |-> Simpson(p.function, index[2], p)]

\* lines 43-45: the slot a work unit writes and the value it writes there
Parallel(p, index) ==
    [slot |-> index[1], val |-> Simpson(p.function, index[2], p)]

\* a buggy iterator: a result is yielded before its unit has returned
ResultReadyAtOnce(k) == TRUE

\* line 33: pool.imap yields result k once unit k has returned
ResultReady(k) == k \in finished

\* a buggy loop: it ends after the first result
DrainedAfterFirst == consumed >= 1

\* line 33: the for loop ends when imap has yielded every result
Drained == consumed = Len(idx)

\* the names of the integrand module that parallelization.py imports as intf
intf == [maxwell_gordeyev |-> "maxwell_gordeyev",
         kappa_gordeyev   |-> "kappa_gordeyev",
         long_gordeyev    |-> "long_gordeyev"]

\* line 35: evaluating function == intf.kappa_gordeyev needs the attribute
DispatchDefined == "kappa_gordeyev" \in DOMAIN intf

\* a buggy dispatch: every distribution is rescaled
RescaleAlways(p, arr) ==
    [alias |-> FALSE,
     val |-> [i \in DOMAIN arr |->
                CDiv(arr[i], KappaScale(IF p.kappa = None THEN 5 ELSE p.kappa))]]

\* lines 35-38: the local a
Rescale(p, arr) ==
    IF p.function = intf.kappa_gordeyev
    THEN [alias |-> FALSE,
          val |-> [i \in DOMAIN arr |-> CDiv(arr[i], KappaScale(p.kappa))]]
    ELSE [alias |-> TRUE, val |-> <<>>]

\* the array the name a stands for
Deref(x) == IF x.alias THEN array ELSE x.val

\* a buggy transform: every element uses the first frequency
TransformFirstFrequency(p, grid, av) ==
    [i \in DOMAIN av |->
        CSub(One, CMul(C(p.Lambda_s * p.w_c, grid[1], 1), av[i]))]

\* line 39: F = 1 - (1j * cf.w + Lambda_s * w_c) * a
Transform(p, grid, av) ==
    [i \in DOMAIN av |->
        CSub(One, CMul(C(p.Lambda_s * p.w_c, grid[i + 1], 1), av[i]))]

\* a buggy buffer: a worker writes a copy of its own, the parent's is untouched
StorePrivateCopy(buf, u) == buf

\* line 44 on the shared memory of lines 55-57: the write of a worker is a
\* write to the buffer of the parent
Store(buf, u) == [buf EXCEPT ![u.slot] = u.val]

\* config is imported (line 9), parallelization is not yet: no buffer
FInit ==
    /\ w \in Grids
    /\ array = <<>>
    /\ imported = FALSE
    /\ fopen = 0
    /\ pc = "idle"
    /\ args = NoArgs
    /\ idx = <<>>
    /\ taskNext = 1
    /\ running = [k \in Workers |-> 0]
    /\ finished = {}
    /\ consumed = 0
    /\ written = [i \in 0..(Len(w) - 1) |-> <<>>]
    /\ a = [alias |-> TRUE, val |-> <<>>]
    /\ F = <<>>
    /\ calls = 0
    /\ prevArgs = NoArgs
    /\ prevF = <<>>

\* the module body, lines 1-61: the functions are defined, then line 61
\* allocates the zero-filled buffer, one slot per frequency
Import ==
    /\ ~imported
    /\ imported' = TRUE
    /\ array' = [i \in Slots |-> Zero]
    /\ UNCHANGED <<w, pc, args, idx, taskNext, running, finished, consumed,
                   written, a, F, calls, prevArgs, prevF, fopen>>
    /\ UNCHANGED others_f

\* lines 29-31: a call of integrate (of the imported module) builds the work
\* units and the pool
Call(p) ==
    /\ imported
    /\ pc \in {"idle", "done"}
    /\ calls < MaxCalls
    /\ calls' = calls + 1
    /\ prevArgs' = args
    /\ prevF' = F
    /\ args' = p
    /\ idx' = Enumerate(w)
    /\ taskNext' = 1
    /\ running' = [k \in Workers |-> 0]
    /\ finished' = {}
    /\ consumed' = 0
    /\ written' = [i \in Slots |-> <<>>]
    /\ pc' = "loop"
    /\ fopen' = fopen + 1
    /\ UNCHANGED <<w, array, a, F, imported>>
    /\ UNCHANGED others_f

\* a pool worker takes the next work unit from the task queue
WorkerTake(k) ==
    /\ pc = "loop"
    /\ running[k] = 0
    /\ taskNext <= Len(idx)
    /\ running' = [running EXCEPT ![k] = taskNext]
    /\ taskNext' = taskNext + 1
    /\ UNCHANGED <<w, array, pc, args, idx, finished, consumed, written, a, F,
                   calls, prevArgs, prevF>>
    /\ UNCHANGED <<imported, fopen>>
    /\ UNCHANGED others_f

\* lines 43-45: the worker computes its unit, writes the slot and returns
WorkerWrite(k) ==
    /\ running[k] # 0
    /\ LET u == Parallel(args, idx[running[k]]) IN
        /\ u.slot \in DOMAIN array
        /\ array' = Store(array, u)
        /\ written' = [written EXCEPT ![u.slot] = Append(@, k)]
    /\ finished' = finished \cup {running[k]}
    /\ running' = [running EXCEPT ![k] = 0]
    /\ UNCHANGED <<w, pc, args, idx, taskNext, consumed, a, F, calls, prevArgs, prevF>>
    /\ UNCHANGED <<imported, fopen>>
    /\ UNCHANGED others_f

\* line 33: one iteration of the for loop over pool.imap
LoopNext ==
    /\ pc = "loop"
    /\ ~Drained
    /\ ResultReady(consumed + 1)
    /\ consumed' = consumed + 1
    /\ UNCHANGED <<w, array, pc, args, idx, taskNext, running, finished, written,
                   a, F, calls, prevArgs, prevF>>
    /\ UNCHANGED <<imported, fopen>>
    /\ UNCHANGED others_f

\* line 33: the iterator is exhausted
LoopExit ==
    /\ pc = "loop"
    /\ Drained
    /\ pc' = "dispatch"
    /\ UNCHANGED <<w, array, args, idx, taskNext, running, finished, consumed,
                   written, a, F, calls, prevArgs, prevF>>
    /\ UNCHANGED <<imported, fopen>>
    /\ UNCHANGED others_f

\* lines 35-38
Dispatch ==
    /\ pc = "dispatch"
    /\ IF DispatchDefined
       THEN a' = Rescale(args, array) /\ pc' = "transform"
       ELSE a' = a /\ pc' = "fault"
    /\ UNCHANGED <<w, array, args, idx, taskNext, running, finished, consumed,
                   written, F, calls, prevArgs, prevF>>
    /\ UNCHANGED <<imported, fopen>>
    /\ UNCHANGED others_f

\* lines 39-40
FinalTransform ==
    /\ pc = "transform"
    /\ F' = Transform(args, w, Deref(a))
    /\ pc' = "done"
    /\ UNCHANGED <<w, array, args, idx, taskNext, running, finished, consumed,
                   written, a, calls, prevArgs, prevF>>
    /\ UNCHANGED <<imported, fopen>>
    /\ UNCHANGED others_f

\* ------------------------------------------------ the velocity integrator
Y_N_POINTS == 2          \* cf.Y_N_POINTS, the size of the buffer
MaxYLen == 3             \* longest y handed to integrand
MaxVCalls == 2           \* calls of integrand (or of v_int) in one run
VSlots == 0..(Y_N_POINTS - 1)

\* sin and cos of an angle given in quarter turns
Sin(q) == CASE q % 4 = 0 -> 0 [] q % 4 = 1 -> 1 [] q % 4 = 2 -> 0 [] q % 4 = 3 -> -1
Cos(q) == CASE q % 4 = 0 -> 1 [] q % 4 = 1 -> 0 [] q % 4 = 2 -> -1 [] q % 4 = 3 -> 0
Abs(x) == IF x < 0 THEN 0 - x ELSE x
Sign(x) == IF x < 0 THEN -1 ELSE IF x > 0 THEN 1 ELSE 0
\* the least r with r*r >= x: the square root of a perfect square
ISqrt(x) == CHOOSE r \in 0..(x + 1) : r * r >= x /\ (r = 0 \/ (r - 1) * (r - 1) < x)

\* the tags v_int selects a distribution for (lines 124-133)
HandledTags == {"maxwell", "kappa", "kappa_vol2", "gauss_shell", "real_data"}
\* the tags a caller may put in params['vdf']
Tags == HandledTags \cup {"isotropic", "unknown"}
Unbound == "unbound"

\* the plasma parameters of the velocity integral: wave vector along the field
VParams == [K_RADAR |-> 1, THETA |-> 0, w_c |-> 1]
\* the velocity grid v (line 123) with V_N_POINTS = 3, V_MAX = 2, ORDER = 1
VGrid == <<0, 1, 2>>
\* y samples: constant sequences and sequences alternating between 0 and 1,
\* so that a value is repeated whenever there are three samples or more
YSamples ==
    {[k \in 1..n |-> 1] : n \in 1..MaxYLen}
        \cup {[k \in 1..n |-> (k - 1) % 2] : n \in 1..MaxYLen}

\* vdfs.F_<tag>(v, params).f_0() at one velocity: a decreasing shape per tag
VdfSample(tag, v) ==
    CASE tag = "maxwell"     -> 3 - v
      [] tag = "kappa"       -> 4 - v
      [] tag = "kappa_vol2"  -> 5 - v
      [] tag = "gauss_shell" -> 2 + v
      [] tag = "real_data"   -> 6 - 2 * v

\* lines 51-63: p(y), in quarter turns per unit velocity
P(y, params) ==
    LET k_perp == params.K_RADAR * Sin(params.THETA)
        k_par  == params.K_RADAR * Cos(params.THETA)
    IN  ISqrt((2 * k_perp * k_perp * (1 - Cos(y * params.w_c)))
                  \div (params.w_c * params.w_c)
              + k_par * k_par * y * y)

\* lines 44-48: Simpson's rule over the three nodes of v, in thirds
v_int_integrand(y, params, v, f) ==
    LET val(j) == v[j] * Sin(P(y, params) * v[j]) * VdfSample(f, v[j])
    IN  val(1) + 4 * val(2) + val(3)

\* a buggy partition: the samples past the end of the buffer are dropped
UnitsTruncated(y) ==
    {<<k - 1, y[k]>> : k \in 1..(IF Len(y) < Y_N_POINTS THEN Len(y) ELSE Y_N_POINTS)}

\* line 31: idx = set(enumerate(y))
Units(y) == {<<k - 1, y[k]>> : k \in 1..Len(y)}

\* line 36: return array -- the module's buffer itself, whatever len(y) is
IntegrandResult(y) == [alias |-> TRUE, val |-> <<>>]

\* the array a result of integrand stands for
VDeref(x) == IF x.alias THEN varray ELSE x.val

NoResult == [alias |-> FALSE, val |-> <<>>]

\* module import, line 80: array = shared_array((int(cf.Y_N_POINTS),))
VInit ==
    /\ varray = [i \in VSlots |-> 0]
    /\ ipc = "idle"
    /\ vy = <<>>
    /\ vf = Unbound
    /\ vpending = {}
    /\ vrunning = [k \in Workers |-> <<>>]
    /\ verror = FALSE
    /\ vwritten = [i \in VSlots |-> <<>>]
    /\ vopen = 0
    /\ vcalls = 0
    /\ vpc = "none"
    /\ vtag = Unbound
    /\ fsel = Unbound
    /\ varray0 = [i \in VSlots |-> 0]
    /\ res_maxwell = NoResult
    /\ int_maxwell = 0
    /\ res = NoResult
    /\ char_vel = <<0, 0>>
    /\ ires = NoResult
    /\ vpoolof = <<>>
    /\ vbufof = <<>>
    /\ iresval = <<>>
    /\ prevres = NoResult
    /\ prevval = <<>>

\* a buggy pool: one pool, created by the first call and used by every call
PoolReused(created) == 1

\* line 33: pool = mp.Pool() is a new pool, the next one this process creates
PoolOf(created) == created + 1

\* lines 40 and 80: array names the one buffer the module body allocated
VBufferOf(call) == 0

\* lines 31-34: integrand builds its work units and pool and starts pool.map
Launch(y, f) ==
    /\ vpoolof' = Append(vpoolof, PoolOf(vcalls))
    /\ vbufof' = Append(vbufof, VBufferOf(vcalls + 1))
    /\ vy' = y
    /\ vf' = f
    /\ vpending' = Units(y)
    /\ vrunning' = [k \in Workers |-> <<>>]
    /\ verror' = FALSE
    /\ vwritten' = [i \in VSlots |-> <<>>]
    /\ vopen' = vopen + 1
    /\ vcalls' = vcalls + 1
    /\ ipc' = "map"

\* a caller other than v_int calls integrand(y, params, v, f)
IntegrandCall ==
    /\ ipc \in {"idle", "returned"}
    /\ vpc \in {"none", "returned"}
    /\ vcalls < MaxVCalls
    /\ \E y \in YSamples, f \in {"maxwell", "kappa"} : Launch(y, f)
    /\ vpc' = "none"
    /\ UNCHANGED <<varray, ires, vtag, fsel, varray0, res_maxwell, int_maxwell, res,
                   char_vel>>
    /\ UNCHANGED vkept
    /\ UNCHANGED others_v

\* a worker of the pool takes one of the work units
VWorkerTake(k) ==
    /\ ipc = "map"
    /\ vrunning[k] = <<>>
    /\ \E u \in vpending :
        /\ vrunning' = [vrunning EXCEPT ![k] = u]
        /\ vpending' = vpending \ {u}
    /\ UNCHANGED <<varray, ipc, vy, vf, verror, vwritten, vopen, vcalls, ires, vpc,
                   vtag, fsel, varray0, res_maxwell, int_maxwell, res, char_vel>>
    /\ UNCHANGED <<vkept, vhist>>
    /\ UNCHANGED others_v

\* lines 39-40: the worker computes its unit and writes array[index[0]];
\* an index past the end of the buffer raises IndexError in the worker
VWorkerWrite(k) ==
    /\ ipc = "map"
    /\ vrunning[k] # <<>>
    /\ LET u == vrunning[k] IN
        IF u[1] \in VSlots
        THEN /\ varray' = [varray EXCEPT ![u[1]] = v_int_integrand(u[2], VParams, VGrid, vf)]
             /\ vwritten' = [vwritten EXCEPT ![u[1]] = Append(@, k)]
             /\ verror' = verror
        ELSE /\ verror' = TRUE
             /\ UNCHANGED <<varray, vwritten>>
    /\ vrunning' = [vrunning EXCEPT ![k] = <<>>]
    /\ UNCHANGED <<ipc, vy, vf, vpending, vopen, vcalls, ires, vpc, vtag, fsel,
                   varray0, res_maxwell, int_maxwell, res, char_vel>>
    /\ UNCHANGED <<vkept, vhist>>
    /\ UNCHANGED others_v

\* pool.map has every result
MapDone == vpending = {} /\ \A k \in Workers : vrunning[k] = <<>>

\* lines 34-36: pool.map returns when every unit has returned, and raises the
\* worker's exception if one raised; otherwise the pool is closed and the
\* buffer returned
MapReturn ==
    /\ ipc = "map"
    /\ MapDone
    /\ IF verror
       THEN /\ ipc' = "fault"
            /\ vpc' = IF vpc = "none" THEN "none" ELSE "IndexError"
            /\ vopen' = vopen
            /\ ires' = NoResult
            /\ iresval' = <<>>
            /\ UNCHANGED <<prevres, prevval>>
       ELSE /\ ipc' = "returned"
            /\ vpc' = vpc
            /\ vopen' = vopen - 1
            /\ ires' = IntegrandResult(vy)
            /\ iresval' = varray
            /\ prevres' = ires
            /\ prevval' = iresval
    /\ UNCHANGED <<varray, vy, vf, vpending, vrunning, verror, vwritten, vcalls,
                   vtag, fsel, varray0, res_maxwell, int_maxwell, res, char_vel>>
    /\ UNCHANGED vhist
    /\ UNCHANGED others_v

\* ------------------------------------------------------- INT_LONG.v_int
\* a buggy selection: a tag without a branch falls back to the Maxwellian
SelectFDefaultMaxwell(tag) == IF tag \in HandledTags THEN tag ELSE "maxwell"

\* lines 124-133: the local f; no branch assigns it for any other tag
SelectF(tag) == IF tag \in HandledTags THEN tag ELSE Unbound

\* line 138: the distribution sampled for the first call of integrand
FirstCallF(f) == "maxwell"

\* a buggy order: the baseline is computed last
SecondCallBaseline(f) == "maxwell"

\* line 140: the distribution sampled for the second call of integrand
SecondCallF(f) == f

\* si.simps(values, y): refuses samples and abscissas of different lengths
SimpsDefined(values, y) == DOMAIN values = 0..(Len(y) - 1)

RECURSIVE SumTo(_, _)
SumTo(values, n) == IF n < 0 THEN 0 ELSE values[n] + SumTo(values, n - 1)

\* si.simps(values, y) as a quadrature with unit weights
Simps(values, y) == SumTo(values, Len(y) - 1)

\* lines 122-138: v_int selects f and calls integrand for the Maxwellian
VIntCall ==
    /\ ipc \in {"idle", "returned"}
    /\ vpc \in {"none", "returned"}
    /\ vcalls < MaxVCalls
    /\ \E y \in YSamples, tag \in Tags :
        /\ vtag' = tag
        /\ fsel' = SelectF(tag)
        /\ Launch(y, FirstCallF(SelectF(tag)))
    /\ varray0' = varray
    /\ vpc' = "baseline"
    /\ res_maxwell' = NoResult
    /\ res' = NoResult
    /\ UNCHANGED <<varray, ires, int_maxwell, char_vel>>
    /\ UNCHANGED vkept
    /\ UNCHANGED others_v

\* lines 138-140: res_maxwell is bound, int_maxwell computed, and integrand
\* called for the selected distribution; simps raises ValueError on a length
\* mismatch (line 139) and f.f_0() raises UnboundLocalError when no branch
\* has bound f (line 140)
VIntAfterBaseline ==
    /\ vpc = "baseline"
    /\ ipc = "returned"
    /\ res_maxwell' = ires
    /\ IF ~SimpsDefined(VDeref(ires), vy) \/ fsel = Unbound
       THEN /\ vpc' = IF ~SimpsDefined(VDeref(ires), vy)
                       THEN "ValueError" ELSE "UnboundLocalError"
            /\ UNCHANGED <<ipc, vy, vf, vpending, vrunning, verror, vwritten,
                           vopen, vcalls, int_maxwell>>
            /\ UNCHANGED vhist
       ELSE /\ int_maxwell' = Simps(VDeref(ires), vy)
            /\ Launch(vy, SecondCallF(fsel))
            /\ vpc' = "current"
    /\ UNCHANGED <<varray, ires, vtag, fsel, varray0, res, char_vel>>
    /\ UNCHANGED vkept
    /\ UNCHANGED others_v

\* lines 140-146: res is bound, the ratio reported, res returned
VIntReturn ==
    /\ vpc = "current"
    /\ ipc = "returned"
    /\ res' = ires
    /\ IF ~SimpsDefined(VDeref(ires), vy)
       THEN vpc' = "ValueError" /\ char_vel' = char_vel
       ELSE vpc' = "returned" /\ char_vel' = <<int_maxwell, Simps(VDeref(ires), vy)>>
    /\ UNCHANGED <<varray, ipc, vy, vf, vpending, vrunning, verror, vwritten, vopen,
                   vcalls, ires, vtag, fsel, varray0, res_maxwell, int_maxwell>>
    /\ UNCHANGED <<vkept, vhist>>
    /\ UNCHANGED others_v

NextV ==
    \/ IntegrandCall
    \/ VIntCall
    \/ \E k \in Workers : VWorkerTake(k)
    \/ \E k \in Workers : VWorkerWrite(k)
    \/ MapReturn
    \/ VIntAfterBaseline
    \/ VIntReturn

\* ------------------------------------------------ the integrand catalog
MaxCatLen == 2           \* longest y handed to initialize
const_k == 1             \* scipy.constants.k, in units where it is 1
DoubleMax == 10          \* the largest finite double, above which kv overflows

\* an extended real: a finite value or +inf
Fin(n) == [inf |-> FALSE, val |-> n]
Inf == [inf |-> TRUE, val |-> 0]

\* y samples of the catalog: -1, 0, 1 and 2 (a full turn when w_c = -2)
CatYValues == {-1, 0, 1, 2}
CatY == UNION {[1..n -> CatYValues] : n \in 1..MaxCatLen}
\* plasma parameters: THETA in quarter turns, kappa in half units, w_c # 0
CatParams ==
    [K_RADAR : {-2, 1}, THETA : {0, 1}, w_c : {-2, 1}, nu : {0, 1},
     T : {1, 2}, m : {1}, kappa : KappaValues]
NoParams == [K_RADAR |-> 0, THETA |-> 0, w_c |-> 0, nu |-> 0, T |-> 0, m |-> 0, kappa |-> 0]

Sq(x) == x * x

\* lines 63-67: Z squared at one sample, as the fraction num/den
ZSquared(y, p) ==
    LET theta_2 == [num |-> 2 * (p.kappa - 3) * p.T * const_k, den |-> p.kappa * p.m]
    IN  [num |-> p.kappa * theta_2.num * Sq(p.K_RADAR)
                   * (2 * Sq(Sin(p.THETA)) * (1 - Cos(p.w_c * y))
                      + Sq(Cos(p.THETA)) * Sq(p.w_c) * Sq(y)),
         den |-> theta_2.den * 2 * Sq(p.w_c)]

\* sps.kv(order, Z): infinite at Z = 0, and where the value exceeds the
\* largest double (small Z, high order); decreasing in Z
kv(order, z2) ==
    IF z2.num = 0 THEN Inf
    ELSE LET x == ((2 ^ order) * 3 * z2.den) \div z2.num
         IN  IF x > DoubleMax THEN Inf ELSE Fin(x)

\* line 68: the Bessel values, order kappa + 1/2
Bessel(zs, p) == [i \in DOMAIN zs |-> kv((p.kappa + 1) \div 2, zs[i])]

\* a buggy clamp: nothing is replaced
ClampNothing(kn) == kn

\* line 69: self.Kn[self.Kn == np.inf] = 1
Clamp(kn) == [i \in DOMAIN kn |-> IF kn[i].inf THEN Fin(1) ELSE kn[i]]

\* line 72: one sample of G, the product of its three factors
\* Z^(kappa + 1/2), Kn and exp(-y * nu), kept as the factors
KappaG(z2, k, y, p) == [Z |-> z2, Kn |-> k, damp |-> y * p.nu]

\* a buggy exponent: cos in place of 1 - cos
MaxwellExponentCos(y, p) ==
    [num |-> 0 - 2 * p.m * Sq(p.w_c) * y * p.nu
             - 2 * Sq(p.K_RADAR) * Sq(Sin(p.THETA)) * p.T * const_k * Cos(p.w_c * y)
             - Sq(p.K_RADAR) * Sq(Cos(p.THETA)) * Sq(y) * p.T * const_k * Sq(p.w_c),
     den |-> 2 * p.m * Sq(p.w_c)]

\* lines 96-99: the exponent of G at one sample, as the fraction num/den
MaxwellExponent(y, p) ==
    [num |-> 0 - 2 * p.m * Sq(p.w_c) * y * p.nu
             - 2 * Sq(p.K_RADAR) * Sq(Sin(p.THETA)) * p.T * const_k * (1 - Cos(p.w_c * y))
             - Sq(p.K_RADAR) * Sq(Cos(p.THETA)) * Sq(y) * p.T * const_k * Sq(p.w_c),
     den |-> 2 * p.m * Sq(p.w_c)]

\* np.exp of a fraction is 1 exactly when the fraction is 0
ExpIsOne(e) == e.num = 0 /\ e.den # 0

\* a real number num / (den * sqrt(rad))
Real(num, den, rad) == [num |-> num, den |-> den, rad |-> rad]

\* lines 154-155: num at one sample
PdNum(y, p) ==
    Abs(p.K_RADAR) * Abs(p.w_c)
        * (Sq(Cos(p.THETA)) * p.w_c * y + Sq(Sin(p.THETA)) * Sin(p.w_c * y))

\* lines 156-158: the radicand of den at one sample; den is w_c * sqrt(radicand)
PdRadicand(y, p) ==
    Sq(Cos(p.THETA)) * Sq(p.w_c) * Sq(y)
        - 2 * Sq(Sin(p.THETA)) * Cos(p.w_c * y) + 2 * Sq(Sin(p.THETA))

\* line 164: den == 0.
PdDenIsZero(y, p) == p.w_c = 0 \/ PdRadicand(y, p) = 0

\* a buggy limit: the sign is taken from the first sample
PdFirstFromHead(ys, p) ==
    Real(Sign(ys[1]) * Abs(p.K_RADAR) * Abs(p.w_c), Abs(p.w_c), 1)

\* line 161: first = np.sign(y[-1]) * abs(K) * abs(w_c) / abs(w_c)
PdFirst(ys, p) ==
    Real(Sign(ys[Len(ys)]) * Abs(p.K_RADAR) * Abs(p.w_c), Abs(p.w_c), 1)

\* lines 162-164: out = num / den, then out[den == 0] = first
PdOut(ys, p) ==
    [i \in DOMAIN ys |->
        IF PdDenIsZero(ys[i], p)
        THEN PdFirst(ys, p)
        ELSE Real(PdNum(ys[i], p), p.w_c, PdRadicand(ys[i], p))]

\* no object yet
CInit ==
    /\ the_type = "none"
    /\ cpc = "none"
    /\ self_y = <<>>
    /\ self_params = NoParams
    /\ Z = <<>>
    /\ Kn = <<>>
    /\ lastop = "none"
    /\ out = <<>>

\* __init__ of the three classes: empty y and params; Z and Kn are not arrays
Construct(t) ==
    /\ cpc = "none"
    /\ the_type' = t
    /\ cpc' = "new"
    /\ UNCHANGED <<self_y, self_params, Z, Kn, lastop, out>>
    /\ UNCHANGED others_c

\* INT_KAPPA.initialize, lines 57-69: stores y and params and runs z_func
\* (an instance is created per evaluation and initialized once)
KappaInitialize ==
    /\ the_type = "kappa"
    /\ cpc = "new"
    /\ \E y \in CatY, p \in CatParams :
        /\ self_y' = y
        /\ self_params' = p
        /\ Z' = [i \in DOMAIN y |-> ZSquared(y[i], p)]
        /\ Kn' = Clamp(Bessel(Z', p))
    /\ cpc' = "initialized"
    /\ UNCHANGED <<the_type, lastop, out>>
    /\ UNCHANGED others_c

\* INT_MAXWELL.initialize and INT_LONG.initialize, lines 91-93 and 118-120
PlainInitialize ==
    /\ the_type \in {"maxwell", "a_vdf"}
    /\ cpc = "new"
    /\ \E y \in CatY, p \in CatParams :
        /\ self_y' = y
        /\ self_params' = p
    /\ cpc' = "initialized"
    /\ UNCHANGED <<the_type, Z, Kn, lastop, out>>
    /\ UNCHANGED others_c

\* INT_KAPPA.integrand, lines 71-74; before initialize self.Z is the type
\* float and the power raises TypeError
KappaIntegrand ==
    /\ the_type = "kappa"
    /\ cpc \in {"new", "initialized"}
    /\ IF cpc = "new"
       THEN cpc' = "fault" /\ UNCHANGED <<lastop, out>>
       ELSE /\ out' = [i \in DOMAIN self_y |-> KappaG(Z[i], Kn[i], self_y[i], self_params)]
            /\ lastop' = "integrand"
            /\ cpc' = cpc
    /\ UNCHANGED <<the_type, self_y, self_params, Z, Kn>>
    /\ UNCHANGED others_c

\* INT_MAXWELL.integrand, lines 95-101; before initialize params is empty
\* and the lookup of 'nu' raises KeyError
MaxwellIntegrand ==
    /\ the_type = "maxwell"
    /\ cpc \in {"new", "initialized"}
    /\ IF cpc = "new"
       THEN cpc' = "fault" /\ UNCHANGED <<lastop, out>>
       ELSE /\ out' = [i \in DOMAIN self_y |-> MaxwellExponent(self_y[i], self_params)]
            /\ lastop' = "integrand"
            /\ cpc' = cpc
    /\ UNCHANGED <<the_type, self_y, self_params, Z, Kn>>
    /\ UNCHANGED others_c

\* INT_LONG.p_d, lines 148-166; before initialize params is empty and the
\* lookup of 'THETA' raises KeyError
LongPd ==
    /\ the_type = "a_vdf"
    /\ cpc \in {"new", "initialized"}
    /\ IF cpc = "new"
       THEN cpc' = "fault" /\ UNCHANGED <<lastop, out>>
       ELSE /\ out' = PdOut(self_y, self_params)
            /\ lastop' = "p_d"
            /\ cpc' = cpc
    /\ UNCHANGED <<the_type, self_y, self_params, Z, Kn>>
    /\ UNCHANGED others_c

NextC ==
    \/ \E t \in {"kappa", "maxwell", "a_vdf"} : Construct(t)
    \/ KappaInitialize
    \/ PlainInitialize
    \/ KappaIntegrand
    \/ MaxwellIntegrand
    \/ LongPd

\* ------------------------------------- two calls of integrate at one time
Callers == {1, 2}

\* a buggy buffer: one per call
BufferPerCall(c) == c

\* lines 44 and 61: array is the module's global, whoever calls
BufferOf(c) == 0

\* the buffer caller c and the workers of its pool name by array
ArrayOf(c) == parray[BufferOf(c)]

\* the array the name a of caller c stands for
PDeref(c) == IF pa[c].alias THEN ArrayOf(c) ELSE pa[c].val

\* module import, line 61, and no call started
PInit ==
    /\ parray = [b \in {0} \cup Callers |-> [i \in 0..(Len(w) - 1) |-> Zero]]
    /\ ppc = [c \in Callers |-> "idle"]
    /\ pargs = [c \in Callers |-> NoArgs]
    /\ ptaskNext = [c \in Callers |-> 1]
    /\ prunning = [c \in Callers |-> [k \in Workers |-> 0]]
    /\ pfinished = [c \in Callers |-> {}]
    /\ pconsumed = [c \in Callers |-> 0]
    /\ pa = [c \in Callers |-> [alias |-> TRUE, val |-> <<>>]]
    /\ pF = [c \in Callers |-> <<>>]
    /\ lastw = [i \in 0..(Len(w) - 1) |-> 0]
    /\ psrc = [c \in Callers |-> [i \in 0..(Len(w) - 1) |-> 0]]

\* the parameters of the two calls: a collision term, Maxwellian or kappa
PArgSets == {p \in ArgSets : p.Lambda_s = 1 /\ p.function # "long_gordeyev"}

\* lines 29-31 in caller c, with parameters other than the other caller's
PCall(c) ==
    /\ ppc[c] = "idle"
    /\ \E p \in PArgSets :
        /\ \A d \in Callers \ {c} : pargs[d] # p
        /\ pargs' = [pargs EXCEPT ![c] = p]
    /\ ppc' = [ppc EXCEPT ![c] = "loop"]
    /\ UNCHANGED <<parray, ptaskNext, prunning, pfinished, pconsumed, pa, pF,
                   lastw, psrc>>
    /\ UNCHANGED others_p

\* a worker of caller c's pool takes the next work unit
PWorkerTake(c, k) ==
    /\ ppc[c] = "loop"
    /\ prunning[c][k] = 0
    /\ ptaskNext[c] <= N
    /\ prunning' = [prunning EXCEPT ![c][k] = ptaskNext[c]]
    /\ ptaskNext' = [ptaskNext EXCEPT ![c] = @ + 1]
    /\ UNCHANGED <<parray, ppc, pargs, pfinished, pconsumed, pa, pF, lastw, psrc>>
    /\ UNCHANGED others_p

\* lines 43-45 in a worker of caller c's pool
PWorkerWrite(c, k) ==
    /\ prunning[c][k] # 0
    /\ LET u == Parallel(pargs[c], Enumerate(w)[prunning[c][k]]) IN
        /\ u.slot \in Slots
        /\ parray' = [parray EXCEPT ![BufferOf(c)] = Store(@, u)]
        /\ lastw' = [lastw EXCEPT ![u.slot] = c]
    /\ pfinished' = [pfinished EXCEPT ![c] = @ \cup {prunning[c][k]}]
    /\ prunning' = [prunning EXCEPT ![c][k] = 0]
    /\ UNCHANGED <<ppc, pargs, ptaskNext, pconsumed, pa, pF, psrc>>
    /\ UNCHANGED others_p

\* line 33 in caller c: one iteration of the for loop
PLoopNext(c) ==
    /\ ppc[c] = "loop"
    /\ pconsumed[c] < N
    /\ (pconsumed[c] + 1) \in pfinished[c]
    /\ pconsumed' = [pconsumed EXCEPT ![c] = @ + 1]
    /\ UNCHANGED <<parray, ppc, pargs, ptaskNext, prunning, pfinished, pa, pF,
                   lastw, psrc>>
    /\ UNCHANGED others_p

\* line 33 in caller c: the iterator is exhausted
PLoopExit(c) ==
    /\ ppc[c] = "loop"
    /\ pconsumed[c] = N
    /\ ppc' = [ppc EXCEPT ![c] = "dispatch"]
    /\ UNCHANGED <<parray, pargs, ptaskNext, prunning, pfinished, pconsumed, pa,
                   pF, lastw, psrc>>
    /\ UNCHANGED others_p

\* lines 35-38 in caller c: the division reads the buffer, the alias does not
PDispatch(c) ==
    /\ ppc[c] = "dispatch"
    /\ pa' = [pa EXCEPT ![c] = Rescale(pargs[c], ArrayOf(c))]
    /\ psrc' = [psrc EXCEPT ![c] = IF pa'[c].alias THEN @ ELSE lastw]
    /\ ppc' = [ppc EXCEPT ![c] = "transform"]
    /\ UNCHANGED <<parray, pargs, ptaskNext, prunning, pfinished, pconsumed, pF,
                   lastw>>
    /\ UNCHANGED others_p

\* lines 39-40 in caller c: an aliased a is read here
PFinalTransform(c) ==
    /\ ppc[c] = "transform"
    /\ pF' = [pF EXCEPT ![c] = Transform(pargs[c], w, PDeref(c))]
    /\ psrc' = [psrc EXCEPT ![c] = IF pa[c].alias THEN lastw ELSE @]
    /\ ppc' = [ppc EXCEPT ![c] = "done"]
    /\ UNCHANGED <<parray, pargs, ptaskNext, prunning, pfinished, pconsumed, pa,
                   lastw>>
    /\ UNCHANGED others_p

NextP ==
    \/ \E c \in Callers : PCall(c)
    \/ \E c \in Callers, k \in Workers : PWorkerTake(c, k)
    \/ \E c \in Callers, k \in Workers : PWorkerWrite(c, k)
    \/ \E c \in Callers : PLoopNext(c)
    \/ \E c \in Callers : PLoopExit(c)
    \/ \E c \in Callers : PDispatch(c)
    \/ \E c \in Callers : PFinalTransform(c)

\* ------------------------------- two evaluations of v_int at one time
Evals == {1, 2}
\* self.y of both evaluations: as many samples as the buffer has slots
NY == [k \in 1..Y_N_POINTS |-> k - 1]
\* the distributions of the two evaluations
NTags == {"maxwell", "kappa"}

\* the f of the call of integrand evaluation e is in
NF(e) == IF npc[e] = "baseline" THEN FirstCallF(ntag[e]) ELSE SecondCallF(ntag[e])

\* module import of v_int_parallel in the parent, line 80; no evaluation yet
NInit ==
    /\ narray = [i \in VSlots |-> 0]
    /\ npc = [e \in Evals |-> "idle"]
    /\ ntag = [e \in Evals |-> Unbound]
    /\ npending = [e \in Evals |-> {}]
    /\ nrunning = [e \in Evals |-> [k \in Workers |-> <<>>]]
    /\ nret = [e \in Evals |-> <<>>]
    /\ nlastw = [i \in VSlots |-> <<0, Unbound>>]

\* lines 122-138 and 31-34: evaluation e selects f and calls integrand for
\* the Maxwellian. The outer worker is a daemonic process: Process.start
\* asserts that it has no children, so mp.Pool() raises AssertionError,
\* unless assertions are compiled out (python -O), when the pool is created
NEvalStart(e) ==
    /\ npc[e] = "idle"
    /\ \E tag \in NTags : ntag' = [ntag EXCEPT ![e] = tag]
    /\ \/ /\ npc' = [npc EXCEPT ![e] = "AssertionError"]
          /\ UNCHANGED npending
       \/ /\ npc' = [npc EXCEPT ![e] = "baseline"]
          /\ npending' = [npending EXCEPT ![e] = Units(NY)]
    /\ UNCHANGED <<narray, nrunning, nret, nlastw>>
    /\ UNCHANGED others_n

\* a worker of evaluation e's inner pool takes one of the work units
NWorkerTake(e, k) ==
    /\ npc[e] \in {"baseline", "current"}
    /\ nrunning[e][k] = <<>>
    /\ \E u \in npending[e] :
        /\ nrunning' = [nrunning EXCEPT ![e][k] = u]
        /\ npending' = [npending EXCEPT ![e] = @ \ {u}]
    /\ UNCHANGED <<narray, npc, ntag, nret, nlastw>>
    /\ UNCHANGED others_n

\* lines 39-40 in a worker of evaluation e's inner pool
NWorkerWrite(e, k) ==
    /\ npc[e] \in {"baseline", "current"}
    /\ nrunning[e][k] # <<>>
    /\ LET u == nrunning[e][k] IN
        /\ u[1] \in VSlots
        /\ narray' = [narray EXCEPT ![u[1]] = v_int_integrand(u[2], VParams, VGrid, NF(e))]
        /\ nlastw' = [nlastw EXCEPT ![u[1]] = <<e, NF(e)>>]
    /\ nrunning' = [nrunning EXCEPT ![e][k] = <<>>]
    /\ UNCHANGED <<npc, ntag, npending, nret>>
    /\ UNCHANGED others_n

\* pool.map of evaluation e has every result
NMapDone(e) == npending[e] = {} /\ \A k \in Workers : nrunning[e][k] = <<>>

\* lines 34-36 and 138-140: the baseline call returns the buffer, int_maxwell
\* is computed and integrand called for the selected distribution
NAfterBaseline(e) ==
    /\ npc[e] = "baseline"
    /\ NMapDone(e)
    /\ npc' = [npc EXCEPT ![e] = "current"]
    /\ npending' = [npending EXCEPT ![e] = Units(NY)]
    /\ UNCHANGED <<narray, ntag, nrunning, nret, nlastw>>
    /\ UNCHANGED others_n

\* lines 34-36 and 140-146: the second call returns the buffer and v_int
\* returns it as res
NReturn(e) ==
    /\ npc[e] = "current"
    /\ NMapDone(e)
    /\ npc' = [npc EXCEPT ![e] = "returned"]
    /\ nret' = [nret EXCEPT ![e] = narray]
    /\ UNCHANGED <<narray, ntag, npending, nrunning, nlastw>>
    /\ UNCHANGED others_n

NextN ==
    \/ \E e \in Evals : NEvalStart(e)
    \/ \E e \in Evals, k \in Workers : NWorkerTake(e, k)
    \/ \E e \in Evals, k \in Workers : NWorkerWrite(e, k)
    \/ \E e \in Evals : NAfterBaseline(e)
    \/ \E e \in Evals : NReturn(e)

FIdle == FInit /\ Len(w) = 1

Init == FInit /\ VInit /\ CInit /\ PInit /\ NInit

InitV == FIdle /\ VInit /\ CInit /\ PInit /\ NInit

InitC == FIdle /\ VInit /\ CInit /\ PInit /\ NInit

InitP == FInit /\ w = <<0, 1>> /\ VInit /\ CInit /\ PInit /\ NInit

InitN == FIdle /\ VInit /\ CInit /\ PInit /\ NInit

Next ==
    \/ Import
    \/ \E p \in ArgSets : Call(p)
    \/ \E k \in Workers : WorkerTake(k)
    \/ \E k \in Workers : WorkerWrite(k)
    \/ LoopNext
    \/ LoopExit
    \/ Dispatch
    \/ FinalTransform

Spec == Init /\ [][Next]_vars

SpecV == InitV /\ [][NextV]_vars

SpecC == InitC /\ [][NextC]_vars

SpecP == InitP /\ [][NextP]_vars

SpecN == InitN /\ [][NextN]_vars

\* ------------------------------------------------ claims on integrate
Returned == pc = "done"
AllPositions == 1..Len(idx)

\* C1: the work units are exactly the pairs (i, w[i]), no slot is ever
\* written twice during a call, and once the loop of integrate has ended
\* (so also when integrate returns) every slot in [0, N) has been written
\* exactly once, by one worker.
C1_PartitionComplete ==
    /\ pc # "idle" =>
        /\ Len(idx) = N
        /\ \A i \in Slots : idx[i + 1] = <<i, w[i + 1]>>
    /\ \A i \in Slots : Len(written[i]) <= 1
    /\ pc \in {"dispatch", "transform", "done"} =>
        \A i \in Slots : Len(written[i]) = 1 /\ written[i][1] \in Workers

C1_Witness ==
    /\ Returned
    /\ N = GridLen
    /\ written[0] # written[1]

\* C2: a call that returns after an earlier call with the same parameters
\* (on the same grid) returns the same sequence, whatever the order in which
\* the workers of either call took and completed their units.
C2_Determinism ==
    (Returned /\ calls >= 2 /\ args = prevArgs) => F = prevF

C2_Witness ==
    /\ Returned
    /\ calls >= 2
    /\ args = prevArgs
    /\ N >= 2
    /\ written[0] = <<2>>
    /\ F = prevF

\* C3: while integrate is at the rescale or at the final transform, every
\* work unit of the call has been handed out and has returned and no worker
\* is running: no slot is read while its unit is pending or running.
C3_DrainBeforePost ==
    pc \in {"dispatch", "transform"} =>
        /\ finished = AllPositions
        /\ taskNext > Len(idx)
        /\ \A k \in Workers : running[k] = 0

C3_Witness ==
    /\ pc = "dispatch"
    /\ N = GridLen
    /\ finished = AllPositions

\* the value unit (i, w[i]) writes, rescaled when the kappa integrand is selected
ExpectedA(i) ==
    LET x == Parallel(args, <<i, w[i + 1]>>).val IN
    IF args.function = "kappa_gordeyev" THEN CDiv(x, KappaScale(args.kappa)) ELSE x

\* C4: the returned sequence has one element per frequency, and element i is
\* 1 - (i*w[i] + Lambda_s*w_c) * a[i], with a[i] the (possibly rescaled)
\* value written by unit (i, w[i]).
C4_OutputAligned ==
    Returned =>
        /\ DOMAIN F = Slots
        /\ \A i \in Slots :
            LET av == ExpectedA(i)
                L  == args.Lambda_s * args.w_c
                wi == w[i + 1]
            IN  /\ F[i].den # 0
                /\ F[i].re * av.den = F[i].den * (av.den - (L * av.re - wi * av.im))
                /\ F[i].im * av.den = F[i].den * (0 - (L * av.im + wi * av.re))

C4_Witness ==
    /\ Returned
    /\ N = GridLen
    /\ args.function = "kappa_gordeyev"
    /\ args.Lambda_s = 1
    /\ \E i, j \in Slots : ~CEq(F[i], F[j])

C6_AlignedWithY ==
    ipc = "returned" =>
        LET r == VDeref(ires) IN
        /\ DOMAIN r = 0..(Len(vy) - 1)
        /\ \A i \in 0..(Len(vy) - 1) :
            /\ r[i] = v_int_integrand(vy[i + 1], VParams, VGrid, vf)
            /\ Len(vwritten[i]) = 1

\* C7: what v_int returns holds, at every index, the velocity integral of the
\* distribution selected by params['vdf'], which is what a lone call of
\* integrand for that distribution leaves in the buffer v_int found.
C7_BaselineDoesNotAlter ==
    vpc = "returned" =>
        /\ vtag \in HandledTags
        /\ DOMAIN VDeref(res) = 0..(Len(vy) - 1)
        /\ VDeref(res) =
            [i \in VSlots |->
                IF i < Len(vy)
                THEN v_int_integrand(vy[i + 1], VParams, VGrid, vtag)
                ELSE varray0[i]]

C7_Witness ==
    /\ vpc = "returned"
    /\ vtag = "kappa"
    /\ \E i \in VSlots :
        VDeref(res)[i] # v_int_integrand(vy[i + 1], VParams, VGrid, "maxwell")
    /\ char_vel[1] # char_vel[2]

\* ------------------------------------------ claims on the integrand catalog
\* C8: for INT_KAPPA, once initialize has run, every sample whose Bessel
\* value is infinite holds exactly 1 and every other sample holds its Bessel
\* value; the Bessel factor integrand() multiplies by is that clamped value,
\* never an infinite one.
C8_KappaClampBeforeIntegrand ==
    the_type = "kappa" =>
        /\ cpc = "initialized" =>
            \A i \in DOMAIN self_y :
                LET b == kv((self_params.kappa + 1) \div 2,
                            ZSquared(self_y[i], self_params))
                IN  /\ ~Kn[i].inf
                    /\ b.inf => Kn[i] = Fin(1)
                    /\ ~b.inf => Kn[i] = b
        /\ lastop = "integrand" =>
            \A i \in DOMAIN out : ~out[i].Kn.inf /\ out[i].Kn = Kn[i]

C8_Witness ==
    /\ the_type = "kappa"
    /\ lastop = "integrand"
    /\ \E i, j \in DOMAIN self_y :
        /\ Z[i].num # 0
        /\ kv((self_params.kappa + 1) \div 2, ZSquared(self_y[i], self_params)).inf
        /\ out[i].Kn = Fin(1)
        /\ out[j].Kn.val > 1

\* C9: for INT_LONG.p_d, a sample whose denominator is zero (y = 0 among
\* them) holds sign(y_last) * |K|, whatever THETA and the sign of w_c are,
\* and every other sample holds the closed-form quotient.
C9_PdSingularity ==
    (the_type = "a_vdf" /\ lastop = "p_d") =>
        /\ DOMAIN out = DOMAIN self_y
        /\ \A i \in DOMAIN self_y :
            LET y   == self_y[i]
                K   == self_params.K_RADAR
                wc  == self_params.w_c
                c2  == Sq(Cos(self_params.THETA))
                s2  == Sq(Sin(self_params.THETA))
                rad == c2 * wc * wc * y * y + 2 * s2 * (1 - Cos(wc * y))
            IN  /\ y = 0 => rad = 0
                /\ rad = 0 =>
                    /\ out[i].rad = 1
                    /\ out[i].den > 0
                    /\ out[i].num = Sign(self_y[Len(self_y)]) * Abs(K) * out[i].den
                /\ rad # 0 =>
                    out[i] = Real(Abs(K) * Abs(wc) * (c2 * wc * y + s2 * Sin(wc * y)),
                                  wc, rad)

C9_Witness ==
    /\ the_type = "a_vdf"
    /\ lastop = "p_d"
    /\ self_params.THETA = 1
    /\ self_params.w_c = -2
    /\ self_params.K_RADAR = -2
    /\ self_y = <<2, -1>>
    /\ out[1] = Real(-4, 2, 1)
    /\ out[2].rad = 4

\* C10: for INT_MAXWELL, the integrand at a sample y = 0 is exp(0) = 1, for
\* every parameter combination.
C10_MaxwellOneAtZero ==
    (the_type = "maxwell" /\ lastop = "integrand") =>
        \A i \in DOMAIN self_y : self_y[i] = 0 => ExpIsOne(out[i])

C10_Witness ==
    /\ the_type = "maxwell"
    /\ lastop = "integrand"
    /\ self_params.nu = 1
    /\ self_params.THETA = 1
    /\ self_y = <<0, 1>>
    /\ ExpIsOne(out[1])
    /\ ~ExpIsOne(out[2])

\* ------------------------------------------- claims on the shared buffer
\* C13: whenever a pool of integrate exists or has existed, line 61 has run
\* and the buffer has one slot per frequency; and the value of every unit
\* that has returned is in that buffer, the one integrate reads: a worker
\* writes the parent's instance, not a copy.
C13_BufferBeforePool ==
    /\ (fopen > 0 \/ pc # "idle") =>
        /\ imported
        /\ DOMAIN array = Slots
    /\ ~imported => (array = <<>> /\ calls = 0)
    /\ \A j \in finished :
        /\ idx[j][1] \in DOMAIN array
        /\ array[idx[j][1]] = Parallel(args, idx[j]).val

C13_Witness ==
    /\ pc = "loop"
    /\ fopen = 1
    /\ N = GridLen
    /\ finished = {2}
    /\ array[1] # Zero
    /\ array[0] = Zero
    /\ \E k \in Workers : running[k] = 1

\* what a call with parameters p returns on grid when every slot it reads
\* holds the value its own unit wrote
OwnOutput(p, grid) ==
    LET buf == [i \in 0..(Len(grid) - 1) |-> Parallel(p, <<i, grid[i + 1]>>).val]
        r   == Rescale(p, buf)
    IN  Transform(p, grid, IF r.alias THEN buf ELSE r.val)

\* C16: in a sequence of calls of integrate on one grid, when a call reads
\* the buffer (rescale, final transform) every slot holds the value that
\* call's own unit wrote, whatever earlier calls left there, and what the
\* call returns is a function of its parameters and the grid only.
C16_NoStaleValues ==
    /\ pc \in {"dispatch", "transform", "done"} =>
        \A i \in Slots : array[i] = Parallel(args, <<i, w[i + 1]>>).val
    /\ Returned => F = OwnOutput(args, w)

C16_Witness ==
    /\ Returned
    /\ calls = MaxCalls
    /\ N = GridLen
    /\ prevArgs.function = "kappa_gordeyev"
    /\ args.function = "maxwell_gordeyev"
    /\ \A i \in Slots :
        /\ Parallel(prevArgs, <<i, w[i + 1]>>).val # array[i]
        /\ ~CEq(F[i], prevF[i])

\* C19: whenever no call of integrate is running (before the first call and
\* after each return) no pool that integrate created is open, and while a
\* call is running exactly its one pool is.
C19_PoolsClosed ==
    /\ pc \in {"idle", "done"} => fopen = 0
    /\ pc \in {"loop", "dispatch", "transform"} => fopen = 1

\* C14 as stated: no two calls of integrand share a pool, and no two share a
\* buffer.
C14_FreshPoolAndBuffer ==
    \A i, j \in DOMAIN vpoolof :
        i # j => (vpoolof[i] # vpoolof[j] /\ vbufof[i] # vbufof[j])

\* C14, amended: every call of integrand creates a pool no other call uses,
\* while the buffer is the same for all calls: the one the module body
\* allocated, which is also what each call returns.
C14_FreshPoolSameBuffer ==
    /\ Len(vpoolof) = vcalls
    /\ DOMAIN vbufof = DOMAIN vpoolof
    /\ \A i, j \in DOMAIN vpoolof : i # j => vpoolof[i] # vpoolof[j]
    /\ \A i \in DOMAIN vbufof : vbufof[i] = 0
    /\ ipc = "returned" => (ires.alias /\ VDeref(ires) = varray)

C14_Witness ==
    /\ ipc = "returned"
    /\ vpc = "none"
    /\ vcalls = 2
    /\ vpoolof = <<1, 2>>
    /\ vbufof = <<0, 0>>
    /\ \A i \in VSlots : Len(vwritten[i]) = 1

\* C15: a call of integrand with more y samples than the buffer has slots
\* never returns: the units past the end of the buffer are dispatched like
\* the others, a worker's write to a slot index >= Y_N_POINTS raises, and the
\* call ends in that fault with no result; the fault has no other cause.
C15_SizeMismatchFaults ==
    /\ Len(vy) > Y_N_POINTS => ipc \in {"map", "fault"}
    /\ (ipc = "map" /\ vpending = {} /\ Len(vy) > Y_N_POINTS
            /\ \A k \in Workers : vrunning[k] = <<>>) => verror
    /\ verror => Len(vy) > Y_N_POINTS
    /\ ipc = "fault" => (verror /\ ires = NoResult /\ vpc # "returned")
    /\ ipc = "map" =>
        \A i \in 0..(Len(vy) - 1) \ VSlots :
            \/ <<i, vy[i + 1]>> \in vpending
            \/ \E k \in Workers : vrunning[k] = <<i, vy[i + 1]>>
            \/ verror

C15_Witness ==
    /\ ipc = "fault"
    /\ Len(vy) = Y_N_POINTS + 1
    /\ verror
    /\ ires = NoResult
    /\ \E i \in VSlots : Len(vwritten[i]) = 1

\* C17: once a later call of integrand has returned, the sequence the call
\* before it returned still has the elements it had when it was returned.
C17_ResultsNotAliased ==
    (ipc = "returned" /\ prevres # NoResult) => VDeref(prevres) = prevval

\* C18: with two evaluations of v_int at one time, what each one's v_int
\* returns holds at every index the velocity integral of that evaluation's
\* own distribution, written by one of its own inner workers for its second
\* call of integrand (never a Maxwellian baseline of the other evaluation).
C18_EvaluationsIsolated ==
    \A e \in Evals :
        npc[e] = "returned" =>
            \A i \in VSlots :
                nret[e][i] = v_int_integrand(NY[i + 1], VParams, VGrid, ntag[e])

\* ------------------------------------------------ claims on v_int's tags
\* the distribution enumeration of PlasmaParameters
EnumTags == {"maxwell", "kappa", "kappa_vol2", "gauss_shell", "real_data", "isotropic"}
VIntFaults == {"IndexError", "ValueError", "UnboundLocalError"}
VIntStarted == vpc \in {"baseline", "current", "returned"} \cup VIntFaults

\* C11 as stated: for every tag of the enumeration (isotropic among them)
\* v_int has selected a shape function and, on a y grid of the buffer's size,
\* does not fault; for any tag outside the enumeration it never returns.
C11_EnumTagsHandled ==
    VIntStarted =>
        /\ vtag \in EnumTags => fsel # Unbound
        /\ (vtag \in EnumTags /\ Len(vy) = Y_N_POINTS) => vpc \notin VIntFaults
        /\ vtag \notin EnumTags => vpc # "returned"

\* C11, amended: v_int selects a shape function exactly for the five tags
\* maxwell, kappa, kappa_vol2, gauss_shell and real_data, and for these, on a
\* y grid of the buffer's size, it does not fault and what it returns is the
\* velocity integral of the selected distribution; for any other tag
\* (isotropic and unknown tags alike) it never gets past the call for the
\* selected distribution and never returns: on a y grid of the buffer's size
\* it ends in the undefined-value fault on the never-assigned f.
C11_TagHandling ==
    VIntStarted =>
        /\ fsel # Unbound <=> vtag \in HandledTags
        /\ vtag \in HandledTags =>
            /\ fsel = vtag
            /\ Len(vy) = Y_N_POINTS => vpc \notin VIntFaults
            /\ vpc = "returned" =>
                \A i \in 0..(Len(vy) - 1) :
                    VDeref(res)[i] = v_int_integrand(vy[i + 1], VParams, VGrid, vtag)
        /\ vtag \notin HandledTags =>
            /\ vpc \in {"baseline"} \cup VIntFaults
            /\ (vpc \in VIntFaults /\ Len(vy) = Y_N_POINTS) => vpc = "UnboundLocalError"
            /\ (vpc = "baseline" /\ ipc = "returned" /\ Len(vy) = Y_N_POINTS) =>
                    SimpsDefined(VDeref(ires), vy)
        /\ vpc = "UnboundLocalError" => vtag \notin HandledTags

C11_Witness ==
    /\ vpc = "UnboundLocalError"
    /\ vtag = "isotropic"
    /\ Len(vy) = Y_N_POINTS
    /\ fsel = Unbound
    /\ res = NoResult

\* ----------------------------------------- claims on calls at one time
\* element i of what caller c returns when its a holds at slot i the value
\* a worker of caller d wrote there
OutputFrom(c, d, i) ==
    LET x  == Parallel(pargs[d], <<i, w[i + 1]>>).val
        av == IF pargs[c].function = "kappa_gordeyev"
              THEN CDiv(x, KappaScale(pargs[c].kappa)) ELSE x
    IN  Transform(pargs[c], w, [j \in Slots |-> av])[i]

\* C12: the two calls have no buffer of their own: element i of what a call
\* returns is computed from the value most recently written to slot i by a
\* worker of either call when the call read the slot (the corrupting
\* interleaving itself is C12_Witness).
C12_ReadsLastWriteOfEitherCall ==
    \A c \in Callers :
        ppc[c] = "done" =>
            \A i \in Slots :
                /\ psrc[c][i] \in Callers
                /\ pF[c][i] = OutputFrom(c, psrc[c][i], i)

C12_Witness ==
    \E c \in Callers, i \in Slots :
        /\ ppc[c] = "done"
        /\ psrc[c][i] # c
        /\ pargs[1] # pargs[2]
        /\ ~CEq(pF[c][i], OutputFrom(c, c, i))

=============================================================================
